---- MODULE Spec2Model ----
(***************************************************************************)
(* Model of the GODOT trajectory service (godot-backend/src): the HTTP     *)
(* handlers of main.py, the scenario materializer of tle_utils.py and the  *)
(* trajectory generator of trajectory_service.py.                          *)
(*                                                                         *)
(* The external libraries (the godot engine, sgp4, astropy, the file       *)
(* system) are the environment: each call into them either succeeds or     *)
(* raises, chosen nondeterministically, except where the outcome is forced *)
(* by the data (a missing document cannot be loaded, a malformed TLE is    *)
(* rejected by the parser).  The numeric values the engine returns are not *)
(* modelled; the values the service computes itself are.                   *)
(*                                                                         *)
(* Time is in seconds.  Lengths are in km.  cos and sin are fixed-point,   *)
(* scaled by 1000.                                                         *)
(***************************************************************************)
EXTENDS Integers, Sequences, FiniteSets, TLC

VARIABLES
    procs,  \* the server processes that were started
    loop,   \* per process: the request whose handler runs on its event loop
    shipped,\* the scenario document present when the service started
    res,    \* resolve_config_path: its argument, the file system, its result
    pc,     \* per request: position of its handler
    req,    \* per request: the request as received
    fs,     \* the document stored at <install>/config/trajectory_temp.yml
    mat,    \* per request: what generate_yaml_from_tle did
    gen,    \* per request: locals and outcome of generate_trajectory
    resp    \* per request: the HTTP response

vars == <<procs, loop, shipped, res, pc, req, fs, mat, gen, resp>>

\* What no request handler changes.
env == <<procs, shipped, res>>

\* ------------------------------------------------------------------ bounds

\* Largest sample grid the model iterates over.
MaxGrid == 4

\* ------------------------------------------------------- program constants

MinTimeInterval == 1
MaxTimeInterval == 86400
MinTleLineLen == 60
DaySeconds == 86400
fallback_num_points == 20
radius == 7000

\* ------------------------------------------------------------------ inputs

Reqs == {"r1", "r2"}

\* Server processes, each with one event loop; they share the file system.
Procs == {"p1", "p2"}

\* Values of the time_interval parameter: both validation boundaries, their
\* neighbours outside the range, and one interior value.
TimeIntervals == {0, 1, 28800, 86400, 86401}

\* A TLE line: its length, whether the external parser accepts it, and the
\* satellite it describes.
Lines ==
    { [len |-> 0,  wellFormed |-> FALSE, sat |-> "none"],
      [len |-> 59, wellFormed |-> FALSE, sat |-> "none"],
      [len |-> 60, wellFormed |-> FALSE, sat |-> "none"],
      [len |-> 69, wellFormed |-> TRUE,  sat |-> "A"],
      [len |-> 69, wellFormed |-> TRUE,  sat |-> "B"] }

NoLine == [len |-> 0, wellFormed |-> FALSE, sat |-> "none"]

\* Validity interval, in seconds, of the scenario document shipped with the
\* service (the document itself is not part of the sources).
StaticSpans == {1, 3}

\* Epoch of a satellite's TLE, in seconds from an arbitrary origin.
EpochOf(sat) == IF sat = "A" THEN 0 ELSE 50000

\* --------------------------------------------------------------- documents

\* start, end: the range the engine computes from the document; timeScale:
\* settings.timeScale; timeline: the events of a generated document.
NoDoc ==
    [kind |-> "none", sat |-> "none", start |-> 0, end |-> 0,
     timeScale |-> "none", timeline |-> <<>>]
AbsentDoc ==
    [kind |-> "absent", sat |-> "none", start |-> 0, end |-> 0,
     timeScale |-> "none", timeline |-> <<>>]
TruncatedDoc ==
    [kind |-> "truncated", sat |-> "none", start |-> 0, end |-> 0,
     timeScale |-> "none", timeline |-> <<>>]
StaticDoc(span) ==
    [kind |-> "static", sat |-> "static", start |-> 0, end |-> span,
     timeScale |-> "TDB", timeline |-> <<>>]

\* t.iso.replace(' ', 'T') + " TDB": the timestamp of an instant, followed by
\* the tag of a time scale.
FormattedTime(t, tag) == [iso |-> t, tag |-> tag]

\* The keys of the 'value' dictionary of the start event's state.
StateKeys == {"pos_x", "pos_y", "pos_z", "vel_x", "vel_y", "vel_z"}

\* An extraction that formats the epoch itself as the end.
extract_epoch_from_tle_sameday(l1, l2) ==
    [beginning |-> EpochOf(l1.sat), end |-> EpochOf(l1.sat),
     scale |-> "tdb",
     formatted_time_beginning |-> FormattedTime(EpochOf(l1.sat), "TDB"),
     formatted_time_end |-> FormattedTime(EpochOf(l1.sat), "TDB")]

\* tle_utils.py: the first line carries the epoch; the end is one Julian day
\* later.  beginning, end: t_beginning and t_end, which astropy builds in
\* the given scale; the formatted times carry the tag " TDB".
extract_epoch_from_tle(l1, l2) ==
    [beginning |-> EpochOf(l1.sat), end |-> EpochOf(l1.sat) + DaySeconds,
     scale |-> "tdb",
     formatted_time_beginning |-> FormattedTime(EpochOf(l1.sat), "TDB"),
     formatted_time_end |-> FormattedTime(EpochOf(l1.sat) + DaySeconds, "TDB")]

\* The timeline of yamldata: the start control event with the state of the
\* spacecraft, then the end point event.
timeline(l1, l2) ==
    << [type |-> "control", name |-> "start",
        epoch |-> extract_epoch_from_tle(l1, l2).formatted_time_beginning,
        state |-> << [name |-> "SC_center", value |-> StateKeys] >>],
       [type |-> "point", name |-> "end",
        epoch |-> extract_epoch_from_tle(l1, l2).formatted_time_end,
        state |-> <<>>] >>

\* A document whose settings declare UTC.
yamldata_utc(l1, l2) ==
    [kind |-> "tle", sat |-> l1.sat,
     start |-> extract_epoch_from_tle(l1, l2).beginning,
     end |-> extract_epoch_from_tle(l1, l2).end,
     timeScale |-> "UTC",
     timeline |-> timeline(l1, l2)]

\* The yamldata document of generate_yaml_from_tle.
yamldata(l1, l2) ==
    [kind |-> "tle", sat |-> l1.sat,
     start |-> extract_epoch_from_tle(l1, l2).beginning,
     end |-> extract_epoch_from_tle(l1, l2).end,
     timeScale |-> "TDB",
     timeline |-> timeline(l1, l2)]

\* -------------------------------------------------------------- exceptions

NoExc == [type |-> "none", status_code |-> 0, detail |-> <<>>]
HTTPException(code, detail) == [type |-> "HTTPException", status_code |-> code, detail |-> detail]
Error(text) == [type |-> "Exception", status_code |-> 0, detail |-> <<text>>]

\* str(e): the text of the exception.
Str(e) == e.detail

\* ------------------------------------------------------------- sample grid

RECURSIVE GridFrom(_, _, _)
GridFrom(t, end, step) ==
    IF t >= end THEN <<end>> ELSE <<t>> \o GridFrom(t + step, end, step)

\* A grid built with twice the requested step.
createGrid_doublestep(start, end, step) == GridFrom(start, end, 2 * step)

\* tempo.EpochRange(start, end).createGrid(step): start, start+step, ...,
\* closed by the end epoch.
createGrid(start, end, step) == GridFrom(start, end, step)

GridLen(span, step) == ((span + step - 1) \div step) + 1

\* ------------------------------------------------------- trajectory points

\* np.cos and np.sin at the angle num/den of a full turn, scaled by 1000.
Cos19 == <<1000, 946, 789, 547, 245, -83, -402, -677, -879, -986,
           -986, -879, -677, -402, -83, 245, 547, 789, 946, 1000>>
Sin19 == <<0, 325, 614, 837, 969, 997, 916, 736, 476, 165,
           -165, -476, -736, -916, -997, -969, -837, -614, -325, 0>>
Cos20 == <<1000, 951, 809, 588, 309, 0, -309, -588, -809, -951, -1000,
           -951, -809, -588, -309, 0, 309, 588, 809, 951, 1000>>
Sin20 == <<0, 309, 588, 809, 951, 1000, 951, 809, 588, 309, 0,
           -309, -588, -809, -951, -1000, -951, -809, -588, -309, 0>>

Cos1000(angle) ==
    CASE angle[2] = 19 -> Cos19[angle[1] + 1]
      [] angle[2] = 20 -> Cos20[angle[1] + 1]

Sin1000(angle) ==
    CASE angle[2] = 19 -> Sin19[angle[1] + 1]
      [] angle[2] = 20 -> Sin20[angle[1] + 1]

\* np.linspace without its end point: n angles 0, 1/n, ..., (n-1)/n of a turn.
linspace_open(n) == [i \in 1..n |-> <<i - 1, n>>]

\* np.linspace(0, 2*pi, n): n angles, the i-th (from 0) at i/(n-1) of a full
\* turn, as the pair <<i, n-1>>.
linspace(n) == [i \in 1..n |-> <<i - 1, n - 1>>]

\* cartesian_to_spherical of a point of the x-y plane at the given angle:
\* the longitude in whole degrees, in (-180, 180]; the latitude is 0.
Longitude(angle) ==
    LET d == (360 * angle[1]) \div angle[2]
    IN  IF d > 180 THEN d - 360 ELSE d

\* A point of the circular fallback orbit (mjd scaled by 100).
FallbackPoint(i, angle) ==
    [epoch |-> <<"Point_", i>>,
     x |-> (radius * Cos1000(angle)) \div 1000,
     y |-> (radius * Sin1000(angle)) \div 1000,
     z |-> 0,
     longitude |-> Longitude(angle),
     latitude |-> 0,
     mjd |-> 5950000 + i]

\* A point sampled from the engine at epoch t; the vector is the engine's.
EnginePoint(t) ==
    [epoch |-> <<"Epoch", t>>, x |-> 0, y |-> 0, z |-> 0,
     longitude |-> 0, latitude |-> 0, mjd |-> t]

\* A fallback loop that returns before appending any point.
fallback_points_empty == <<>>

\* The fallback_points list built by the loop of the fallback branch.
fallback_points ==
    LET t == linspace(fallback_num_points)
    IN  [i \in 1..fallback_num_points |-> FallbackPoint(i - 1, t[i])]

\* ----------------------------------------------------------------- results

NoResult ==
    [points |-> <<>>, start_time |-> <<>>, end_time |-> <<>>,
     point_count |-> 0, status |-> "none", message |-> <<>>]

\* A success result that reports the size of the grid instead of the points kept.
SuccessResult_gridcount(points, grid) ==
    [points |-> points,
     start_time |-> <<"Epoch", grid[1]>>,
     end_time |-> <<"Epoch", grid[Len(grid)]>>,
     point_count |-> Len(grid),
     status |-> "success",
     message |-> <<>>]

\* The dictionary returned after the per-point loop.
SuccessResult(points, grid) ==
    [points |-> points,
     start_time |-> <<"Epoch", grid[1]>>,
     end_time |-> <<"Epoch", grid[Len(grid)]>>,
     point_count |-> Len(points),
     status |-> "success",
     message |-> <<>>]

\* The dictionary returned by the top-level handler of generate_trajectory.
FallbackResult(e) ==
    [points |-> fallback_points,
     start_time |-> <<"Fallback_start">>,
     end_time |-> <<"Fallback_end">>,
     point_count |-> Len(fallback_points),
     status |-> "fallback",
     message |-> <<"Used fallback due to error: ">> \o Str(e)]

\* --------------------------------------------------------------- responses

\* body: the TrajectoryResponse of a JSON endpoint; csv: the rows of a CSV
\* endpoint; info: the dictionary of the health and root endpoints.
NoResp == [status_code |-> 0, detail |-> <<>>, body |-> NoResult, csv |-> <<>>, info |-> <<>>]
\* A handler that reports a degraded result with a status of its own.
Ok_degraded(result) ==
    [NoResp EXCEPT !.status_code = IF result.status = "fallback" THEN 503 ELSE 200,
                   !.body = result]

Ok(result) == [NoResp EXCEPT !.status_code = 200, !.body = result]
ErrorResponse(e) == [NoResp EXCEPT !.status_code = e.status_code, !.detail = e.detail]
Info(d) == [NoResp EXCEPT !.status_code = 200, !.info = d]

CsvHeader == <<"epoch", "mjd", "x", "y", "z", "longitude", "latitude">>

CsvRow(point) ==
    <<point.epoch, point.mjd, point.x, point.y, point.z, point.longitude, point.latitude>>

\* A writer that takes the first point for the header line.
CsvRows_skipfirst(result) ==
    <<CsvHeader>> \o [i \in 1..(Len(result.points) - 1) |-> CsvRow(result.points[i + 1])]

\* The rows written by the CSV endpoints: the header, then one row per
\* element of result["points"].
CsvRows(result) ==
    <<CsvHeader>> \o [i \in 1..Len(result.points) |-> CsvRow(result.points[i])]

PlainTextResponse(rows) == [NoResp EXCEPT !.status_code = 200, !.csv = rows]

JsonEndpoints == {"trajectory", "from_tle"}
CsvEndpoints == {"csv", "from_tle_csv"}
TleEndpoints == {"from_tle", "from_tle_csv"}

\* What a handler answers with the generator's result.
Respond(endpoint, result) ==
    IF endpoint \in CsvEndpoints THEN PlainTextResponse(CsvRows(result)) ELSE Ok(result)

\* main.py: the checks of time_interval, in the order of the code.
ValidateInterval(S) ==
    IF S < MinTimeInterval
      THEN HTTPException(400, <<"Time interval must be at least 1 second">>)
    ELSE IF S > MaxTimeInterval
      THEN HTTPException(400, <<"Maximum time interval is 86400 seconds (1 day)">>)
    ELSE NoExc

\* main.py: the checks of a TLERequest, in the order of the code.
ValidateTle(q) ==
    IF ValidateInterval(q.time_interval) # NoExc
      THEN ValidateInterval(q.time_interval)
    ELSE IF q.tle_line1.len = 0 \/ q.tle_line2.len = 0
      THEN HTTPException(400, <<"Both TLE lines are required">>)
    ELSE IF q.tle_line1.len < MinTleLineLen \/ q.tle_line2.len < MinTleLineLen
      THEN HTTPException(400, <<"TLE lines are too short - please provide valid TLE data">>)
    ELSE NoExc

\* The "except Exception as e" clause that closes each handler: whatever was
\* raised inside the try, an HTTPException included, leaves as a 500.
HandlerExcept(endpoint, e) ==
    CASE endpoint = "trajectory" ->
           HTTPException(500, <<"Error generating trajectory: ">> \o Str(e))
      [] endpoint = "from_tle" ->
           HTTPException(500, <<"Error generating trajectory from TLE: ">> \o Str(e)
                                 \o <<"Details:", "traceback">>)
      [] endpoint = "csv" ->
           HTTPException(500, <<"Error generating CSV: ">> \o Str(e))
      [] endpoint = "from_tle_csv" ->
           HTTPException(500, <<"Error generating CSV from TLE: ">> \o Str(e))

\* ------------------------------------------------------------------- state

NoReq == [endpoint |-> "none", time_interval |-> 0, tle_line1 |-> NoLine, tle_line2 |-> NoLine]

NoMat == [calls |-> 0, outcome |-> "none"]

\* calls: invocations of generate_trajectory; setup: whether the steps before
\* the loop succeeded; error: what the top-level handler caught; skipped:
\* grid epochs whose query failed; fallback_engine_calls: calls into the
\* engine made from the top-level handler; outcome: returned or raised;
\* loaded: the scenario document load_yaml read.
NoGen ==
    [calls |-> 0, setup |-> "none", time_grid |-> <<>>, idx |-> 0,
     trajectory_points |-> <<>>, skipped |-> 0, error |-> NoExc,
     fallback_engine_calls |-> 0, outcome |-> "none", result |-> NoResult,
     loaded |-> NoDoc]

NoRes == [relative_path |-> <<>>, exists |-> {}, called |-> FALSE, path |-> <<>>]

\* The service as started by default: one process, one event loop.
Init ==
    /\ procs = {"p1"}
    /\ loop = [p \in Procs |-> "none"]
    /\ res = NoRes
    /\ pc = [r \in Reqs |-> "idle"]
    /\ req = [r \in Reqs |-> NoReq]
    /\ fs \in {AbsentDoc} \cup {StaticDoc(s) : s \in StaticSpans}
    /\ mat = [r \in Reqs |-> NoMat]
    /\ gen = [r \in Reqs |-> NoGen]
    /\ resp = [r \in Reqs |-> NoResp]
    /\ shipped = fs

ValidInterval(S) == ValidateInterval(S) = NoExc

\* The request's grid has at most MaxGrid epochs.
Fits(S, span) == ValidInterval(S) => GridLen(span, S) <= MaxGrid

\* ----------------------------------------------------------------- handlers

\* The handler returns the generator's result, as JSON or as CSV: 200.
Return(r, g) ==
    /\ gen' = [gen EXCEPT ![r] = g]
    /\ resp' = [resp EXCEPT ![r] = Respond(req[r].endpoint, g.result)]
    /\ pc' = [pc EXCEPT ![r] = "done"]

\* An exception raised inside the handler's try reaches its except clause.
Raise(r, e) ==
    /\ resp' = [resp EXCEPT ![r] = ErrorResponse(HandlerExcept(req[r].endpoint, e))]
    /\ pc' = [pc EXCEPT ![r] = "done"]

\* A process whose event loop is free accepts the request; the handler, a
\* coroutine that never awaits, keeps that event loop until it is done.
Accept(r) ==
    \E p \in procs :
        /\ loop[p] = "none"
        /\ loop' = [loop EXCEPT ![p] = r]

\* GET /trajectory arrives and its handler starts on the event loop.
BeginGet(r) ==
    /\ pc[r] = "idle"
    /\ \E S \in TimeIntervals :
        /\ fs.kind \in {"static", "tle"} => Fits(S, fs.end - fs.start)
        /\ req' = [req EXCEPT ![r] =
                     [endpoint |-> "trajectory", time_interval |-> S,
                      tle_line1 |-> NoLine, tle_line2 |-> NoLine]]
    /\ Accept(r)
    /\ pc' = [pc EXCEPT ![r] = "validate"]
    /\ UNCHANGED <<fs, mat, gen, resp, env>>

\* POST /trajectory/from-tle arrives, with a body drawn from the given
\* values, and its handler starts on the event loop.
BeginTleOf(r, intervals, lines) ==
    /\ pc[r] = "idle"
    /\ \E S \in intervals, l1 \in lines, l2 \in lines :
        /\ Fits(S, DaySeconds)
        /\ req' = [req EXCEPT ![r] =
                     [endpoint |-> "from_tle", time_interval |-> S,
                      tle_line1 |-> l1, tle_line2 |-> l2]]
    /\ Accept(r)
    /\ pc' = [pc EXCEPT ![r] = "validate"]
    /\ UNCHANGED <<fs, mat, gen, resp, env>>

BeginTle(r) == BeginTleOf(r, TimeIntervals, Lines)

\* get_trajectory up to the call of generate_trajectory.
get_trajectory(r) ==
    /\ pc[r] = "validate"
    /\ req[r].endpoint = "trajectory"
    /\ LET e == ValidateInterval(req[r].time_interval)
       IN  IF e # NoExc
             THEN Raise(r, e) /\ UNCHANGED gen
             ELSE /\ pc' = [pc EXCEPT ![r] = "gen_setup"]
                  /\ gen' = [gen EXCEPT ![r].calls = @ + 1]
                  /\ UNCHANGED resp
    /\ UNCHANGED <<loop, req, fs, mat, env>>

\* A handler that calls generate_yaml_from_tle without checking the request.
get_trajectory_from_tle_unchecked(r) ==
    /\ pc[r] = "validate"
    /\ req[r].endpoint = "from_tle"
    /\ pc' = [pc EXCEPT ![r] = "materialize"]
    /\ mat' = [mat EXCEPT ![r].calls = @ + 1]
    /\ UNCHANGED <<loop, req, fs, gen, resp, env>>

\* get_trajectory_from_tle up to the call of generate_yaml_from_tle.
get_trajectory_from_tle(r) ==
    /\ pc[r] = "validate"
    /\ req[r].endpoint = "from_tle"
    /\ LET e == ValidateTle(req[r])
       IN  IF e # NoExc
             THEN Raise(r, e) /\ UNCHANGED mat
             ELSE /\ pc' = [pc EXCEPT ![r] = "materialize"]
                  /\ mat' = [mat EXCEPT ![r].calls = @ + 1]
                  /\ UNCHANGED resp
    /\ UNCHANGED <<loop, req, fs, gen, env>>

\* GET /trajectory/csv arrives; its handler does not check time_interval.
BeginCsv(r) ==
    /\ pc[r] = "idle"
    /\ \E S \in TimeIntervals :
        /\ (fs.kind \in {"static", "tle"} /\ S > 0) => GridLen(fs.end - fs.start, S) <= MaxGrid
        /\ req' = [req EXCEPT ![r] =
                     [endpoint |-> "csv", time_interval |-> S,
                      tle_line1 |-> NoLine, tle_line2 |-> NoLine]]
    /\ Accept(r)
    /\ pc' = [pc EXCEPT ![r] = "validate"]
    /\ UNCHANGED <<fs, mat, gen, resp, env>>

\* POST /trajectory/from-tle/csv arrives.
BeginTleCsv(r) ==
    /\ pc[r] = "idle"
    /\ \E S \in TimeIntervals, l1 \in Lines, l2 \in Lines :
        /\ Fits(S, DaySeconds)
        /\ req' = [req EXCEPT ![r] =
                     [endpoint |-> "from_tle_csv", time_interval |-> S,
                      tle_line1 |-> l1, tle_line2 |-> l2]]
    /\ Accept(r)
    /\ pc' = [pc EXCEPT ![r] = "validate"]
    /\ UNCHANGED <<fs, mat, gen, resp, env>>

\* GET / or GET /health arrives.
BeginInfo(r) ==
    /\ pc[r] = "idle"
    /\ \E ep \in {"root", "health"} :
        req' = [req EXCEPT ![r] = [NoReq EXCEPT !.endpoint = ep]]
    /\ Accept(r)
    /\ pc' = [pc EXCEPT ![r] = "validate"]
    /\ UNCHANGED <<fs, mat, gen, resp, env>>

\* get_trajectory_csv up to the call of generate_trajectory: no check.
get_trajectory_csv(r) ==
    /\ pc[r] = "validate"
    /\ req[r].endpoint = "csv"
    /\ pc' = [pc EXCEPT ![r] = "gen_setup"]
    /\ gen' = [gen EXCEPT ![r].calls = @ + 1]
    /\ UNCHANGED <<loop, req, fs, mat, resp, env>>

\* get_trajectory_from_tle_csv up to the call of generate_yaml_from_tle:
\* time_interval is checked, the TLE lines are not.
get_trajectory_from_tle_csv(r) ==
    /\ pc[r] = "validate"
    /\ req[r].endpoint = "from_tle_csv"
    /\ LET e == ValidateInterval(req[r].time_interval)
       IN  IF e # NoExc
             THEN Raise(r, e) /\ UNCHANGED mat
             ELSE /\ pc' = [pc EXCEPT ![r] = "materialize"]
                  /\ mat' = [mat EXCEPT ![r].calls = @ + 1]
                  /\ UNCHANGED resp
    /\ UNCHANGED <<loop, req, fs, gen, env>>

\* root
root(r) ==
    /\ pc[r] = "validate"
    /\ req[r].endpoint = "root"
    /\ resp' = [resp EXCEPT ![r] = Info(<<"name", "version", "description">>)]
    /\ pc' = [pc EXCEPT ![r] = "done"]
    /\ UNCHANGED <<loop, req, fs, mat, gen, env>>

\* health_check
health_check(r) ==
    /\ pc[r] = "validate"
    /\ req[r].endpoint = "health"
    /\ resp' = [resp EXCEPT ![r] = Info(<<"status", "ok">>)]
    /\ pc' = [pc EXCEPT ![r] = "done"]
    /\ UNCHANGED <<loop, req, fs, mat, gen, env>>

\* ------------------------------------------------------------- materializer

MatFailures == {"state_vector", "open", "dump"}

\* generate_yaml_from_tle, then the handler's call of generate_trajectory.
\* The parser rejects a malformed TLE; the state-vector computation and the
\* file write may fail; a write that fails after open() leaves the document
\* truncated.
generate_yaml_from_tle(r) ==
    /\ pc[r] = "materialize"
    /\ LET l1 == req[r].tle_line1
           l2 == req[r].tle_line2
       IN  IF ~(l1.wellFormed /\ l2.wellFormed)
             THEN /\ mat' = [mat EXCEPT ![r].outcome = "twoline2rv"]
                  /\ Raise(r, Error("twoline2rv"))
                  /\ UNCHANGED <<fs, gen>>
             ELSE \/ \E f \in MatFailures :
                        /\ mat' = [mat EXCEPT ![r].outcome = f]
                        /\ fs' = IF f = "dump" THEN TruncatedDoc ELSE fs
                        /\ Raise(r, Error(f))
                        /\ UNCHANGED gen
                  \/ /\ mat' = [mat EXCEPT ![r].outcome = "written"]
                     /\ fs' = yamldata(l1, l2)
                     /\ pc' = [pc EXCEPT ![r] = "gen_setup"]
                     /\ gen' = [gen EXCEPT ![r].calls = @ + 1]
                     /\ UNCHANGED resp
    /\ UNCHANGED <<loop, req, env>>

\* ---------------------------------------------------------------- generator

\* The engine calls of generate_trajectory that precede the per-point loop.
SetupStages ==
    {"load_universe", "Universe", "load_trajectory", "Trajectory",
     "compute", "range", "createGrid"}

\* The stages that follow the load of the scenario document.
AfterLoad == {"Trajectory", "compute", "range", "createGrid"}

\* A stage can raise only if the stages before it succeeded: a missing
\* document stops at load_yaml, an empty one at the Trajectory constructor.
CanFailAt(stage, doc) ==
    CASE doc.kind = "absent" -> stage \in {"load_universe", "Universe", "load_trajectory"}
      [] doc.kind = "truncated" -> stage \in {"load_universe", "Universe", "Trajectory"}
      [] OTHER -> TRUE

\* generate_trajectory without its top-level try: the exception leaves the
\* function and reaches the handler.
SetupExcept_propagate(r, e) ==
    /\ gen' = [gen EXCEPT ![r].setup = "failed", ![r].error = e, ![r].outcome = "raised",
                          ![r].loaded = IF e.detail[1] \in AfterLoad THEN fs ELSE NoDoc]
    /\ Raise(r, e)

\* "except Exception as e" of generate_trajectory: enter the fallback branch.
SetupExcept(r, e) ==
    /\ gen' = [gen EXCEPT ![r].setup = "failed", ![r].error = e,
                          ![r].loaded = IF e.detail[1] \in AfterLoad THEN fs ELSE NoDoc]
    /\ pc' = [pc EXCEPT ![r] = "gen_fallback"]
    /\ UNCHANGED resp

\* generate_trajectory from its first line to the construction of the grid.
\* resolve_config_path finds the stored scenario document.  The engine
\* builds a grid only for a positive step.
generate_trajectory_setup(r) ==
    /\ pc[r] = "gen_setup"
    /\ \/ \E stage \in SetupStages :
            /\ CanFailAt(stage, fs)
            /\ SetupExcept(r, Error(stage))
       \/ /\ fs.kind \in {"static", "tle"}
          /\ req[r].time_interval > 0
          /\ gen' = [gen EXCEPT
                       ![r].setup = "ok",
                       ![r].loaded = fs,
                       ![r].time_grid = createGrid(fs.start, fs.end, req[r].time_interval),
                       ![r].idx = 1]
          /\ pc' = [pc EXCEPT ![r] = "gen_loop"]
          /\ UNCHANGED resp
    /\ UNCHANGED <<loop, req, fs, mat, env>>

\* A loop without its inner try: the failure of one point reaches the
\* top-level handler.
PointExcept_abort(r) ==
    /\ gen' = [gen EXCEPT ![r].skipped = @ + 1, ![r].error = Error("vector3")]
    /\ pc' = [pc EXCEPT ![r] = "gen_fallback"]
    /\ UNCHANGED resp

\* "except Exception as point_error": the point is skipped, the loop goes on.
PointExcept(r) ==
    /\ gen' = [gen EXCEPT ![r].skipped = @ + 1, ![r].idx = @ + 1]
    /\ UNCHANGED <<pc, resp>>

\* An iteration that inserts the new point at the front of the list.
generate_trajectory_point_prepend(r) ==
    /\ pc[r] = "gen_loop"
    /\ gen[r].idx <= Len(gen[r].time_grid)
    /\ \/ /\ gen' = [gen EXCEPT
                       ![r].trajectory_points =
                           <<EnginePoint(gen[r].time_grid[gen[r].idx])>> \o @,
                       ![r].idx = @ + 1]
          /\ UNCHANGED <<pc, resp>>
       \/ PointExcept(r)
    /\ UNCHANGED <<loop, req, fs, mat, env>>

\* One iteration of "for epoch in time_grid": the frame-vector query and the
\* construction of the point succeed, or one of them raises.
generate_trajectory_point(r) ==
    /\ pc[r] = "gen_loop"
    /\ gen[r].idx <= Len(gen[r].time_grid)
    /\ \/ /\ gen' = [gen EXCEPT
                       ![r].trajectory_points =
                           Append(@, EnginePoint(gen[r].time_grid[gen[r].idx])),
                       ![r].idx = @ + 1]
          /\ UNCHANGED <<pc, resp>>
       \/ PointExcept(r)
    /\ UNCHANGED <<loop, req, fs, mat, env>>

\* The return after the loop, and the handler's return of the result.
generate_trajectory_return(r) ==
    /\ pc[r] = "gen_loop"
    /\ gen[r].idx > Len(gen[r].time_grid)
    /\ Return(r, [gen[r] EXCEPT
                    !.outcome = "returned",
                    !.result = SuccessResult(gen[r].trajectory_points, gen[r].time_grid)])
    /\ UNCHANGED <<loop, req, fs, mat, env>>

\* The fallback branch: cartesian_to_spherical calls the engine's
\* sphericalFromCart for each of the points; if one call raises (the first
\* or the last, here), the exception leaves generate_trajectory and reaches
\* the handler.
generate_trajectory_fallback(r) ==
    /\ pc[r] = "gen_fallback"
    /\ \/ \E failAt \in {1, fallback_num_points} \cap (1..fallback_num_points) :
            /\ gen' = [gen EXCEPT ![r].fallback_engine_calls = failAt,
                                  ![r].outcome = "raised"]
            /\ Raise(r, Error("sphericalFromCart"))
       \/ Return(r, [gen[r] EXCEPT
                       !.fallback_engine_calls = fallback_num_points,
                       !.outcome = "returned",
                       !.result = FallbackResult(gen[r].error)])
    /\ UNCHANGED <<loop, req, fs, mat, env>>

\* The response is sent; nothing of the request is kept.
Finish(r) ==
    /\ pc[r] = "done"
    /\ loop' = [p \in Procs |-> IF loop[p] = r THEN "none" ELSE loop[p]]
    /\ pc' = [pc EXCEPT ![r] = "idle"]
    /\ req' = [req EXCEPT ![r] = NoReq]
    /\ mat' = [mat EXCEPT ![r] = NoMat]
    /\ gen' = [gen EXCEPT ![r] = NoGen]
    /\ resp' = [resp EXCEPT ![r] = NoResp]
    /\ UNCHANGED <<fs, env>>

Next ==
    \E r \in Reqs :
        \/ BeginGet(r)
        \/ BeginTle(r)
        \/ BeginCsv(r)
        \/ BeginTleCsv(r)
        \/ BeginInfo(r)
        \/ root(r)
        \/ health_check(r)
        \/ get_trajectory(r)
        \/ get_trajectory_from_tle(r)
        \/ get_trajectory_csv(r)
        \/ get_trajectory_from_tle_csv(r)
        \/ generate_yaml_from_tle(r)
        \/ generate_trajectory_setup(r)
        \/ generate_trajectory_point(r)
        \/ generate_trajectory_return(r)
        \/ generate_trajectory_fallback(r)
        \/ Finish(r)

Spec == Init /\ [][Next]_vars

\* The service started with one process per element of Procs.
InitWorkers ==
    /\ procs = Procs
    /\ loop = [p \in Procs |-> "none"]
    /\ res = NoRes
    /\ pc = [r \in Reqs |-> "idle"]
    /\ req = [r \in Reqs |-> NoReq]
    /\ fs \in {AbsentDoc} \cup {StaticDoc(s) : s \in StaticSpans}
    /\ mat = [r \in Reqs |-> NoMat]
    /\ gen = [r \in Reqs |-> NoGen]
    /\ resp = [r \in Reqs |-> NoResp]
    /\ shipped = fs

\* POST /trajectory/from-tle with a one-day interval and a well-formed TLE.
BeginTleDay(r) ==
    BeginTleOf(r, {DaySeconds}, {l \in Lines : l.wellFormed})

\* Requests to POST /trajectory/from-tle served by several processes.
NextWorkers ==
    \E r \in Reqs :
        \/ BeginTleDay(r)
        \/ get_trajectory_from_tle(r)
        \/ generate_yaml_from_tle(r)
        \/ generate_trajectory_setup(r)
        \/ generate_trajectory_point(r)
        \/ generate_trajectory_return(r)
        \/ generate_trajectory_fallback(r)
        \/ Finish(r)

SpecWorkers == InitWorkers /\ [][NextWorkers]_vars

\* ------------------------------------------------------ resolve_config_path

\* Longest path given to resolve_config_path.
MaxPathLen == 3

\* A path is a sequence of characters: a dot, a separator, a name character.
Chars == {".", "/", "c"}

Paths == UNION {[1..n -> Chars] : n \in 0..MaxPathLen}

DotSlash == <<".", "/">>
DotDotSlash == <<".", ".", "/">>

\* os.path.dirname(os.path.dirname(__file__)): the installation directory,
\* an absolute path.
InstallDir == <<"/", "install">>

\* str.replace("./", ""): every occurrence, scanning from the left.
RECURSIVE Replace(_)
Replace(s) ==
    IF Len(s) < 2 THEN s
    ELSE IF s[1] = "." /\ s[2] = "/" THEN Replace(SubSeq(s, 3, Len(s)))
    ELSE <<s[1]>> \o Replace(Tail(s))

\* os.path.join(base, p): an absolute p replaces the base.
join(base, p) ==
    IF p # <<>> /\ p[1] = "/" THEN p ELSE base \o <<"/">> \o p

\* The list possible_paths.
possible_paths(relative_path) ==
    << relative_path,
       DotSlash \o relative_path,
       DotDotSlash \o relative_path,
       Replace(relative_path),
       join(InstallDir, Replace(relative_path)) >>

\* The loop "for path in possible_paths" from its i-th element on, and the
\* return that follows it.
RECURSIVE ResolveFrom(_, _, _, _)
ResolveFrom(paths, i, exists, relative_path) ==
    IF i > Len(paths) THEN relative_path
    ELSE IF paths[i] \in exists THEN paths[i]
    ELSE ResolveFrom(paths, i + 1, exists, relative_path)

\* A search that keeps the last candidate found instead of returning at the
\* first.
resolve_config_path_last(relative_path, exists) ==
    LET paths == possible_paths(relative_path)
        hits == {i \in 1..Len(paths) : paths[i] \in exists}
    IN  IF hits = {} THEN relative_path
        ELSE paths[CHOOSE i \in hits : \A j \in hits : j <= i]

\* resolve_config_path; exists is the set of paths for which os.path.exists
\* answers True.
resolve_config_path(relative_path, exists) ==
    ResolveFrom(possible_paths(relative_path), 1, exists, relative_path)

\* What os.path.exists can answer on the paths of a set: the empty path never
\* exists, the current directory and its parent do, and a relative path
\* exists exactly when the same path written with a leading "./" does.
Consistent(exists, paths) ==
    /\ <<>> \notin exists
    /\ DotSlash \in paths => DotSlash \in exists
    /\ DotDotSlash \in paths => DotDotSlash \in exists
    /\ \A q \in paths :
         (q # <<>> /\ q[1] # "/" /\ (DotSlash \o q) \in paths)
            => (q \in exists <=> (DotSlash \o q) \in exists)

\* resolve_config_path is about to be called with some path, on some file
\* system; no request is being served.
InitResolve ==
    /\ procs = {"p1"}
    /\ loop = [p \in Procs |-> "none"]
    /\ \E relative_path \in Paths :
         LET paths == {possible_paths(relative_path)[i] :
                          i \in 1..Len(possible_paths(relative_path))}
         IN  \E exists \in SUBSET paths :
                /\ Consistent(exists, paths)
                /\ res = [NoRes EXCEPT !.relative_path = relative_path,
                                       !.exists = exists]
    /\ pc = [r \in Reqs |-> "idle"]
    /\ req = [r \in Reqs |-> NoReq]
    /\ fs = AbsentDoc
    /\ mat = [r \in Reqs |-> NoMat]
    /\ gen = [r \in Reqs |-> NoGen]
    /\ resp = [r \in Reqs |-> NoResp]
    /\ shipped = fs

\* The call of resolve_config_path.
ResolveCall ==
    /\ ~res.called
    /\ res' = [res EXCEPT !.called = TRUE,
                          !.path = resolve_config_path(res.relative_path, res.exists)]
    /\ UNCHANGED <<procs, loop, shipped, pc, req, fs, mat, gen, resp>>

NextResolve == ResolveCall

SpecResolve == InitResolve /\ [][NextResolve]_vars

\* ------------------------------------------------------------------ claims

Done(r) == pc[r] = "done"
Returned(r) == gen[r].outcome = "returned"
IsGet(r) == req[r].endpoint = "trajectory"
IsTle(r) == req[r].endpoint = "from_tle"
OutOfRange(S) == S < 1 \/ S > 86400
Contains(seq, part) == \A i \in 1..Len(part) : \E j \in 1..Len(seq) : seq[j] = part[i]

\* C1: every GET /trajectory whose time_interval is below 1 or above 86400
\* is answered with status 400, and the generator is not invoked.
C1_OutOfRangeIs400 ==
    \A r \in Reqs :
        (Done(r) /\ IsGet(r) /\ OutOfRange(req[r].time_interval))
            => (resp[r].status_code = 400 /\ gen[r].calls = 0)

\* C2: every POST /trajectory/from-tle with a valid time_interval and a TLE
\* line shorter than 60 characters is answered with status 400 and the detail
\* "TLE lines are too short ..." ("Both TLE lines are required" for an empty
\* line).
C2_ShortTleIs400 ==
    \A r \in Reqs :
        (Done(r) /\ IsTle(r) /\ ~OutOfRange(req[r].time_interval)
                 /\ (req[r].tle_line1.len < 60 \/ req[r].tle_line2.len < 60))
            => /\ resp[r].status_code = 400
               /\ resp[r].detail =
                    IF req[r].tle_line1.len = 0 \/ req[r].tle_line2.len = 0
                      THEN <<"Both TLE lines are required">>
                      ELSE <<"TLE lines are too short - please provide valid TLE data">>

\* C3: every POST /trajectory/from-tle whose lines pass the length check but
\* are rejected as malformed by the TLE parser is answered with status 400.
C3_MalformedTleIs400 ==
    \A r \in Reqs :
        (Done(r) /\ IsTle(r) /\ ~OutOfRange(req[r].time_interval)
                 /\ req[r].tle_line1.len >= 60 /\ req[r].tle_line2.len >= 60
                 /\ mat[r].outcome = "twoline2rv")
            => resp[r].status_code = 400

\* C4: whenever a step of generate_trajectory before the per-point loop
\* raises, generate_trajectory returns (does not raise) a result with status
\* "fallback", exactly 20 points, and a message containing the text of the
\* exception.
C4_SetupFailureGivesFallback ==
    \A r \in Reqs :
        (Done(r) /\ gen[r].setup = "failed")
            => /\ Returned(r)
               /\ gen[r].result.status = "fallback"
               /\ Len(gen[r].result.points) = 20
               /\ Contains(gen[r].result.message, Str(gen[r].error))

\* C5: when the steps before the loop succeed and the query fails for k of
\* the G grid epochs, the result has status "success" and point_count G - k;
\* a per-point failure neither triggers the fallback nor stops the loop.
C5_PerPointFailureIsSkipped ==
    \A r \in Reqs :
        /\ (Done(r) /\ gen[r].setup = "ok")
              => /\ Returned(r)
                 /\ gen[r].result.status = "success"
                 /\ gen[r].result.point_count = Len(gen[r].time_grid) - gen[r].skipped
                 /\ gen[r].idx = Len(gen[r].time_grid) + 1
                 /\ req[r].endpoint \in JsonEndpoints => resp[r].body = gen[r].result
        /\ gen[r].skipped > 0
              => /\ pc[r] \in {"gen_loop", "done"}
                 /\ gen[r].result.status # "fallback"

\* C5 witness: a success result delivered after one query of a four-epoch
\* grid failed.
C5_Witness ==
    \E r \in Reqs :
        /\ Done(r) /\ gen[r].setup = "ok"
        /\ Len(gen[r].time_grid) = 4 /\ gen[r].skipped = 1
        /\ gen[r].result.point_count = 3

\* C6: in every result returned by generate_trajectory, success or fallback,
\* point_count equals the number of elements of points.
C6_PointCountIsLength ==
    \A r \in Reqs :
        Returned(r) => gen[r].result.point_count = Len(gen[r].result.points)

\* C6 witness: a success result returned after two per-point failures.
C6_Witness ==
    \E r \in Reqs :
        /\ Returned(r) /\ gen[r].result.status = "success"
        /\ gen[r].skipped = 2 /\ Len(gen[r].result.points) >= 1

\* C7 as stated: every result returned by generate_trajectory, whatever its
\* status, has at least one point.
C7_NeverEmpty ==
    \A r \in Reqs : Returned(r) => Len(gen[r].result.points) >= 1

\* C7 as amended: every fallback result has at least one point; a success
\* result has one point per grid epoch whose query succeeded, and is empty
\* exactly when the query failed for every epoch of the grid.
C7_OnlyFallbackNeverEmpty ==
    \A r \in Reqs :
        Returned(r) =>
            /\ gen[r].result.status = "fallback" => Len(gen[r].result.points) >= 1
            /\ gen[r].result.status = "success" =>
                 (Len(gen[r].result.points) = 0 <=> gen[r].skipped = Len(gen[r].time_grid))

\* C7 witness: a fallback result, with its points, delivered to the client.
C7_Witness ==
    \E r \in Reqs :
        /\ Done(r) /\ resp[r].status_code = 200
        /\ resp[r].body.status = "fallback"
        /\ Len(resp[r].body.points) >= 1

\* C8: every fallback result is a closed planar circle of radius 7000 km:
\* point i (from 0) is at angle i*2*pi/19, has z = 0 and lies at distance
\* 7000 from the origin (to the precision of the fixed-point table, 4 km),
\* and the first and the last point coincide.
C8_FallbackIsClosedCircle ==
    \A r \in Reqs :
        (Returned(r) /\ gen[r].result.status = "fallback") =>
            LET p == gen[r].result.points
            IN  /\ Len(p) = 20
                /\ \A i \in 1..Len(p) :
                     /\ p[i].z = 0
                     /\ p[i].x = 7 * Cos19[i]
                     /\ p[i].y = 7 * Sin19[i]
                     /\ p[i].x * p[i].x + p[i].y * p[i].y >= 7000 * 7000 - 56000
                     /\ p[i].x * p[i].x + p[i].y * p[i].y <= 7000 * 7000 + 56000
                /\ p[1].x = p[Len(p)].x
                /\ p[1].y = p[Len(p)].y

\* C8 witness: a fallback result whose first point is at (7000, 0, 0).
C8_Witness ==
    \E r \in Reqs :
        /\ Returned(r) /\ gen[r].result.status = "fallback"
        /\ gen[r].result.points[1].x = 7000
        /\ gen[r].result.points[1].y = 0

\* C9: the fallback branch never fails: it calls no engine function, and
\* generate_trajectory returns a result even when every engine call fails.
C9_FallbackNeverFails ==
    \A r \in Reqs :
        /\ gen[r].fallback_engine_calls = 0
        /\ gen[r].outcome # "raised"

C11_FallbackIsAlso200 ==
    \A r \in Reqs :
        (Done(r) /\ IsGet(r) /\ ~OutOfRange(req[r].time_interval) /\ Returned(r))
            => /\ resp[r].status_code = 200
               /\ resp[r].body = gen[r].result
               /\ gen[r].setup = "ok" => resp[r].body.status = "success"
               /\ gen[r].setup = "failed" => resp[r].body.status = "fallback"

\* C11 witness: a GET /trajectory at the lower boundary of time_interval,
\* answered 200 with the fallback after the engine failed.
C11_Witness ==
    \E r \in Reqs :
        /\ Done(r) /\ IsGet(r) /\ req[r].time_interval = 1
        /\ gen[r].setup = "failed" /\ Returned(r)
        /\ resp[r].status_code = 200 /\ resp[r].body.status = "fallback"

\* C12: every CSV response built from a result of the generator, success or
\* fallback, is one header row followed by one data row per point, in order:
\* the number of data rows is the point_count of the result, which is the
\* point_count the JSON endpoint answers for the same result.
C12_CsvRowsArePointCount ==
    \A r \in Reqs :
        (Done(r) /\ req[r].endpoint \in CsvEndpoints /\ Returned(r))
            => /\ resp[r].status_code = 200
               /\ Len(resp[r].csv) >= 1
               /\ resp[r].csv[1] = CsvHeader
               /\ Len(resp[r].csv) - 1 = gen[r].result.point_count
               /\ Len(resp[r].csv) - 1 = Ok(gen[r].result).body.point_count
               /\ \A i \in 1..Len(gen[r].result.points) :
                    resp[r].csv[i + 1] = CsvRow(gen[r].result.points[i])

\* C12 witness: a CSV response with three data rows, from a success result
\* of a four-epoch grid one query of which failed.
C12_Witness ==
    \E r \in Reqs :
        /\ Done(r) /\ req[r].endpoint \in CsvEndpoints /\ Returned(r)
        /\ gen[r].result.status = "success" /\ gen[r].skipped = 1
        /\ Len(resp[r].csv) = 4

\* C13: two POST /trajectory/from-tle requests do not collide on the
\* scenario document: the document a request's generator loads is the one
\* that request's own materializer wrote.
C13_LoadsOwnDocument ==
    \A r \in Reqs :
        (IsTle(r) /\ gen[r].loaded.kind # "none")
            => gen[r].loaded = yamldata(req[r].tle_line1, req[r].tle_line2)

\* C14: requests are independent: the scenario document a GET /trajectory
\* loads is the one the service was started with, whatever POST requests
\* were served before it.
C14_GetLoadsShippedDocument ==
    \A r \in Reqs :
        (IsGet(r) /\ gen[r].loaded.kind # "none") => gen[r].loaded = shipped

\* C15: a running propagation does not starve the health and root
\* endpoints: while a request is inside generate_trajectory, a GET /health
\* or GET / that arrives can start (and then be served to completion).
C15_HealthServedDuringPropagation ==
    \A r \in Reqs, q \in Reqs :
        (pc[r] \in {"gen_setup", "gen_loop", "gen_fallback"} /\ pc[q] = "idle")
            => ENABLED BeginInfo(q)

\* C16: for every GET /trajectory/csv whose time_interval is outside
\* [1,86400] the generator is never invoked and the response status is 400.
C16_CsvOutOfRangeIs400 ==
    \A r \in Reqs :
        (req[r].endpoint = "csv" /\ OutOfRange(req[r].time_interval))
            => /\ gen[r].calls = 0
               /\ Done(r) => resp[r].status_code = 400

\* C17: for every POST /trajectory/from-tle/csv (with a valid time_interval)
\* in which a TLE line is empty or shorter than 60 characters, neither
\* generate_yaml_from_tle nor generate_trajectory is invoked and the response
\* status is 400.
C17_CsvShortTleIs400 ==
    \A r \in Reqs :
        (req[r].endpoint = "from_tle_csv" /\ ~OutOfRange(req[r].time_interval)
            /\ (req[r].tle_line1.len < 60 \/ req[r].tle_line2.len < 60))
            => /\ mat[r].calls = 0
               /\ gen[r].calls = 0
               /\ Done(r) => resp[r].status_code = 400

\* The epochs of the points of a result, and the gap that follows point i.
Gap(p, i) == p[i + 1].mjd - p[i].mjd

\* C18 as stated: for every time_interval S in [1,86400] and every success
\* result, two consecutive points are S seconds apart, except the last pair,
\* which is at most S apart.
C18_ConsecutiveSpacedByS ==
    \A r \in Reqs :
        (Returned(r) /\ gen[r].result.status = "success"
            /\ ~OutOfRange(req[r].time_interval)) =>
            LET p == gen[r].result.points
                S == req[r].time_interval
            IN  \A i \in 1..(Len(p) - 1) :
                    IF i < Len(p) - 1 THEN Gap(p, i) = S
                    ELSE Gap(p, i) > 0 /\ Gap(p, i) <= S

\* C18 as amended: the grid is start, start+S, ..., closed by the end epoch,
\* and the points are those grid epochs whose query succeeded.  When no query
\* failed, consecutive points are S apart except the last pair (at most S).
\* When k queries failed, consecutive points are more than 0 and at most
\* (k+1)*S apart, and a gap that does not end at the end epoch is a multiple
\* of S.
C18_SpacedBySUpToSkipped ==
    \A r \in Reqs :
        (Returned(r) /\ gen[r].result.status = "success"
            /\ ~OutOfRange(req[r].time_interval)) =>
            LET p == gen[r].result.points
                g == gen[r].time_grid
                S == req[r].time_interval
                k == gen[r].skipped
            IN  /\ \A i \in 1..(Len(g) - 1) :
                      IF i < Len(g) - 1 THEN g[i + 1] - g[i] = S
                      ELSE g[i + 1] - g[i] > 0 /\ g[i + 1] - g[i] <= S
                /\ k = 0 => /\ Len(p) = Len(g)
                            /\ \A i \in 1..Len(p) : p[i].mjd = g[i]
                /\ \A i \in 1..(Len(p) - 1) :
                      /\ Gap(p, i) > 0
                      /\ Gap(p, i) <= (k + 1) * S
                      /\ p[i + 1].mjd # g[Len(g)] => Gap(p, i) % S = 0

\* C18 witness: a success result for S = 1 over a four-epoch grid whose
\* second query failed: its first two points are 2 seconds apart.
C18_Witness ==
    \E r \in Reqs :
        /\ Returned(r) /\ gen[r].result.status = "success"
        /\ req[r].time_interval = 1 /\ gen[r].skipped = 1
        /\ Len(gen[r].result.points) = 3
        /\ Gap(gen[r].result.points, 1) = 2

\* C19: generate_yaml_from_tle, called with a TLE line that is empty or
\* shorter than 60 characters, fails with an invalid-input error of its own,
\* before the TLE parser is called, and writes no document.
C19_MaterializerRejectsShortLines ==
    \A r \in Reqs :
        (mat[r].outcome # "none"
            /\ (req[r].tle_line1.len < 60 \/ req[r].tle_line2.len < 60))
            => /\ mat[r].outcome = "invalid_input"
               /\ mat[r].outcome \notin {"written", "dump"}

\* C20: resolve_config_path returns the first of its candidate paths, in
\* candidate order, that exists, and its argument unchanged when none
\* exists; so its result is an existing path or the argument.
C20_ReturnsFirstExisting ==
    res.called =>
        LET paths == possible_paths(res.relative_path)
        IN  /\ Len(paths) = 5
            /\ \A i \in 1..Len(paths) :
                 (paths[i] \in res.exists /\ \A j \in 1..(i - 1) : paths[j] \notin res.exists)
                    => res.path = paths[i]
            /\ (\A i \in 1..Len(paths) : paths[i] \notin res.exists)
                    => res.path = res.relative_path
            /\ res.path \in res.exists \/ res.path = res.relative_path

\* C20 witness: the argument and its "./" form do not exist, the "../" form
\* and the installed copy do: the result is the "../" form.
C20_Witness ==
    /\ res.called
    /\ res.relative_path = <<"c">>
    /\ <<"c">> \notin res.exists
    /\ <<".", ".", "/", "c">> \in res.exists
    /\ join(InstallDir, <<"c">>) \in res.exists
    /\ res.path = <<".", ".", "/", "c">>

\* The path with only a leading "./" removed.
StripLeading(s) ==
    IF Len(s) >= 2 /\ s[1] = "." /\ s[2] = "/" THEN SubSeq(s, 3, Len(s)) ELSE s

\* C21: the candidates of resolve_config_path are, in order: the path as
\* given, "./" + path, "../" + path, the path with only a leading "./"
\* removed (every other character kept), and the installation directory
\* joined with that same stripped path.
C21_CandidatesStripLeadingOnly ==
    res.called =>
        LET paths == possible_paths(res.relative_path)
        IN  /\ Len(paths) = 5
            /\ paths[1] = res.relative_path
            /\ paths[2] = DotSlash \o res.relative_path
            /\ paths[3] = DotDotSlash \o res.relative_path
            /\ paths[4] = StripLeading(res.relative_path)
            /\ paths[5] = join(InstallDir, StripLeading(res.relative_path))

\* C22: every document written by generate_yaml_from_tle has a timeline of
\* exactly two events: the start control event, with the TLE epoch and the
\* six components of the state of the one spacecraft, then the end point
\* event, with only an epoch, one day after the start.
C22_TimelineIsStartThenEnd ==
    fs.kind = "tle" =>
        LET t == fs.timeline
        IN  /\ Len(t) = 2
            /\ t[1].type = "control" /\ t[1].name = "start"
            /\ t[1].epoch.iso = EpochOf(fs.sat)
            /\ Len(t[1].state) = 1
            /\ t[1].state[1].value = {"pos_x", "pos_y", "pos_z", "vel_x", "vel_y", "vel_z"}
            /\ t[2].type = "point" /\ t[2].name = "end"
            /\ t[2].state = <<>>
            /\ t[2].epoch.iso = t[1].epoch.iso + 86400
            /\ t[1].epoch.iso < t[2].epoch.iso
            /\ fs.start = t[1].epoch.iso /\ fs.end = t[2].epoch.iso

\* C22 witness: the document of satellite B's TLE, written by a request.
C22_Witness ==
    /\ fs.kind = "tle" /\ fs.sat = "B"
    /\ \E r \in Reqs : mat[r].outcome = "written" /\ req[r].tle_line1.sat = "B"
    /\ fs.timeline[1].epoch.iso = 50000
    /\ fs.timeline[2].epoch.iso = 136400

\* The tag under which a time scale of astropy is written.
TagOf(scale) == IF scale = "tdb" THEN "TDB" ELSE IF scale = "utc" THEN "UTC" ELSE "other"

C24_FailedValidationTouchesNothing ==
    [][ \A r \in Reqs :
          (IsTle(r) /\ ValidateTle(req[r]) # NoExc /\ pc'[r] # pc[r])
              => /\ fs' = fs
                 /\ mat'[r].calls = 0 /\ mat'[r].outcome = "none"
                 /\ gen'[r].calls = 0
                 /\ pc'[r] \in {"done", "idle"} ]_vars

\* C24 witness: a request with a 59-character line has been answered, and
\* the document an earlier request wrote is still the stored one.
C24_Witness ==
    \E r \in Reqs :
        /\ Done(r) /\ IsTle(r) /\ req[r].time_interval = 28800
        /\ req[r].tle_line1.len = 59
        /\ mat[r].calls = 0 /\ gen[r].calls = 0
        /\ fs.kind = "tle"

\* C25: the points of a success result are an order-preserving subsequence
\* of the sample grid: the grid has no epoch twice; each point is the point
\* of one grid epoch already visited; the points are in increasing order of
\* epoch, so no grid epoch gives two points; and every visited epoch either
\* gave a point or was skipped.  This holds after each iteration of the loop
\* and for the result returned.
C25_PointsAreSubsequenceOfGrid ==
    \A r \in Reqs :
        gen[r].setup = "ok" =>
            LET g == gen[r].time_grid
                p == gen[r].trajectory_points
            IN  /\ \A i \in 1..Len(g), j \in 1..Len(g) : i < j => g[i] < g[j]
                /\ \A i \in 1..Len(p) :
                     \E k \in 1..(gen[r].idx - 1) :
                        /\ p[i].mjd = g[k]
                        /\ p[i].epoch = <<"Epoch", g[k]>>
                /\ \A i \in 1..(Len(p) - 1) : p[i].mjd < p[i + 1].mjd
                /\ Len(p) + gen[r].skipped = gen[r].idx - 1
                /\ (Returned(r) /\ gen[r].result.status = "success")
                     => gen[r].result.points = p

\* C25 witness: a success result of a four-epoch grid whose third query
\* failed: the points are those of the first, second and fourth epoch.
C25_Witness ==
    \E r \in Reqs :
        /\ Returned(r) /\ gen[r].result.status = "success"
        /\ gen[r].time_grid = <<0, 1, 2, 3>>
        /\ Len(gen[r].result.points) = 3
        /\ gen[r].result.points[1].mjd = 0
        /\ gen[r].result.points[2].mjd = 1
        /\ gen[r].result.points[3].mjd = 3

====
